---- MODULE Spec2Model ----
(***************************************************************************)
(* bin2png: a byte stream is packed into the RGB channels of a raster      *)
(* image (file_to_png) and unpacked again (png_to_file).  The model        *)
(* follows src/bin2png_lanczos.py: the dimension planner                   *)
(* (choose_file_dimensions), the encoder loop, the file-backed FileReader  *)
(* used by the decoder and the decoder's zero-run buffer.                  *)
(***************************************************************************)
EXTENDS Integers, Sequences, FiniteSets, TLC

(* ---------------------------- bounds ----------------------------------- *)
\* longest input whose bytes are chosen freely from ByteVals
MaxLen == 4
\* longest input of one repeated byte (exercises the planner's search)
MaxBytes == 31
\* largest explicitly requested width or height
MaxDim == 2

\* byte values used for the freely chosen inputs (a byte is 0..255)
ByteVals == {0, 1, 255}
\* byte values used for the long, uniform inputs
FillVals == {0, 9}

(* ---------------------------- values ----------------------------------- *)
\* Python's None; an optional value v is <<v>>
None == <<>>

Some(v) == <<v>>

Val(o) == o[1]

Zeros(k) == [j \in 1..k |-> 0]

\* all byte sequences of length at most MaxLen over ByteVals
FreeInputs == UNION {[1..k -> ByteVals] : k \in 0..MaxLen}

\* uniform byte sequences of length at most MaxBytes
FillInputs == {[j \in 1..k |-> v] : k \in 0..MaxBytes, v \in FillVals}

Inputs == FreeInputs \cup FillInputs

\* --width / --height: absent, or an integer >= 1
OptDim == {None} \cup {Some(d) : d \in 1..MaxDim}

\* main(): dims is None unless a width or a height was given
InputDimensions == {None} \cup ({<<a, b>> : a \in OptDim, b \in OptDim} \ {<<None, None>>})

(* --------------------------- arithmetic -------------------------------- *)
\* int(math.ceil(float(num_bytes) / 3.0))
CeilDiv3(n) == (n + 2) \div 3

\* variant of CeilSqrt: the root is truncated, int(math.sqrt(p))
CeilSqrt_Floor(p) == CHOOSE s \in 0..p : s * s <= p /\ (s + 1) * (s + 1) > p

\* int(math.ceil(math.sqrt(p)))
CeilSqrt(p) == CHOOSE s \in 0..p : s * s >= p /\ \A t \in 0..p : t * t >= p => s <= t

VARIABLES
  data,              \* the bytes of the input file
  input_dimensions,  \* None, or <<width option, height option>>
  square,            \* the --square flag
  pc,                \* position in file_to_png / png_to_file
  err,               \* the exception that was raised and where, "" if none
  num_bytes, num_pixels, sqrt_max,   \* planner locals
  i, is_perfect, extra_bytes, cand,  \* planner loop locals (cand is `dimensions` in the loop)
  best_dimensions, best_extra_bytes,
  dimensions,        \* what choose_file_dimensions returned
  pixels, row, column, pos,          \* encoder: grid, cursor, read offset
  writes,            \* history: how often each pixel was assigned
  png,               \* the image written by img.save, None before
  tmp_exists,        \* the temporary file is present in the file system
  tmpfile,           \* FileReader.tmpfile
  dec_row, dec_col, seg,             \* decoder cursor (row, col, channel)
  pix_buffer,        \* pending zero run
  outfile,           \* bytes written to the output sink
  visited            \* history: channel values read so far

inVars == <<data, input_dimensions, square>>

planVars == <<num_bytes, num_pixels, sqrt_max, i, is_perfect, extra_bytes, cand,
              best_dimensions, best_extra_bytes, dimensions>>

encVars == <<pixels, row, column, pos, writes, png>>

decVars == <<tmp_exists, tmpfile, dec_row, dec_col, seg, pix_buffer, outfile, visited>>

vars == <<inVars, pc, err, planVars, encVars, decVars>>

Init ==
  /\ data \in Inputs
  /\ input_dimensions \in InputDimensions
  /\ square \in BOOLEAN
  /\ pc = "plan"
  /\ err = ""
  /\ num_bytes = 0 /\ num_pixels = 0 /\ sqrt_max = 0
  /\ i = 0 /\ is_perfect = FALSE /\ extra_bytes = None /\ cand = None
  /\ best_dimensions = None /\ best_extra_bytes = None
  /\ dimensions = None
  /\ pixels = <<>> /\ row = 0 /\ column = -1 /\ pos = 0
  /\ writes = <<>>
  /\ png = None
  /\ tmp_exists = FALSE /\ tmpfile = None
  /\ dec_row = 0 /\ dec_col = 0 /\ seg = 0
  /\ pix_buffer = 0 /\ outfile = <<>> /\ visited = <<>>

(* ------------------- choose_file_dimensions ---------------------------- *)
BothGiven == input_dimensions # None /\ input_dimensions[1] # None /\ input_dimensions[2] # None

\* lines 82-85, assigned on every path that passes line 80
Measure ==
  /\ num_bytes' = Len(data)
  /\ num_pixels' = CeilDiv3(Len(data))
  /\ sqrt_max' = CeilSqrt(CeilDiv3(Len(data)))

\* ceil-like quotient of lines 93-96 and 99-102
DivUp(p, d) == IF p % d = 0 THEN p \div d ELSE p \div d + 1

\* lines 77-80: both dimensions given, returned unchanged
PlanExplicit ==
  /\ pc = "plan"
  /\ BothGiven
  /\ dimensions' = <<Val(input_dimensions[1]), Val(input_dimensions[2])>>
  /\ pc' = "planned"
  /\ UNCHANGED <<inVars, err, num_bytes, num_pixels, sqrt_max, i, is_perfect, extra_bytes,
                 cand, best_dimensions, best_extra_bytes, encVars, decVars>>

\* lines 87-88
PlanSquare ==
  /\ pc = "plan"
  /\ ~BothGiven
  /\ square
  /\ Measure
  /\ dimensions' = <<sqrt_max', sqrt_max'>>
  /\ pc' = "planned"
  /\ UNCHANGED <<inVars, err, i, is_perfect, extra_bytes, cand, best_dimensions,
                 best_extra_bytes, encVars, decVars>>

\* lines 90-96: the width is specified but the height is not
PlanWidthOnly ==
  /\ pc = "plan"
  /\ ~BothGiven
  /\ ~square
  /\ input_dimensions # None
  /\ input_dimensions[1] # None
  /\ Measure
  /\ dimensions' = <<Val(input_dimensions[1]), DivUp(num_pixels', Val(input_dimensions[1]))>>
  /\ pc' = "planned"
  /\ UNCHANGED <<inVars, err, i, is_perfect, extra_bytes, cand, best_dimensions,
                 best_extra_bytes, encVars, decVars>>

\* lines 97-102: the height is specified but the width is not
PlanHeightOnly ==
  /\ pc = "plan"
  /\ ~BothGiven
  /\ ~square
  /\ input_dimensions # None
  /\ input_dimensions[1] = None
  /\ Measure
  /\ dimensions' = <<DivUp(num_pixels', Val(input_dimensions[2])), Val(input_dimensions[2])>>
  /\ pc' = "planned"
  /\ UNCHANGED <<inVars, err, i, is_perfect, extra_bytes, cand, best_dimensions,
                 best_extra_bytes, encVars, decVars>>

\* lines 104-106: enter the search, i is the first value of range(sqrt_max, 0, -1)
PlanSearchInit ==
  /\ pc = "plan"
  /\ ~square
  /\ input_dimensions = None
  /\ Measure
  /\ best_dimensions' = None
  /\ best_extra_bytes' = None
  /\ i' = sqrt_max'
  /\ is_perfect' = FALSE
  /\ pc' = "plan_loop"
  /\ UNCHANGED <<inVars, err, extra_bytes, cand, dimensions, encVars, decVars>>

\* variant of Improves: the comparison of line 113 is reversed
Improves_Reversed(d, e, bd, be) == d[1] * d[2] >= num_pixels /\ (bd = None \/ e > Val(be))

\* line 113: does the candidate replace the best one seen so far
Improves(d, e, bd, be) == d[1] * d[2] >= num_pixels /\ (bd = None \/ e < Val(be))

\* variant of Candidate: the is_perfect branch of line 109 is missing
Candidate_NoPerfect(w) == <<w, num_pixels \div w + 1>>

\* lines 107-112: the candidate for width w
Candidate(w) == <<w, DivUp(num_pixels, w)>>

\* lines 106-117: one iteration of the search loop
PlanIter ==
  /\ pc = "plan_loop"
  /\ i >= 1
  /\ ~is_perfect
  /\ is_perfect' = (num_pixels % i = 0)
  /\ cand' = Candidate(i)
  /\ extra_bytes' = Some(cand'[1] * cand'[2] * 3 - num_bytes)
  /\ IF Improves(cand', Val(extra_bytes'), best_dimensions, best_extra_bytes)
       THEN best_dimensions' = cand' /\ best_extra_bytes' = extra_bytes'
       ELSE UNCHANGED <<best_dimensions, best_extra_bytes>>
  /\ i' = IF is_perfect' THEN i ELSE i - 1
  /\ UNCHANGED <<inVars, pc, err, num_bytes, num_pixels, sqrt_max, dimensions, encVars, decVars>>

LoopOver == pc = "plan_loop" /\ (is_perfect \/ i < 1)

\* lines 118-123: the loop is over and a best candidate exists
PlanReturn ==
  /\ LoopOver
  /\ best_extra_bytes # None
  /\ dimensions' = best_dimensions
  /\ pc' = "planned"
  /\ UNCHANGED <<inVars, err, num_bytes, num_pixels, sqrt_max, i, is_perfect, extra_bytes,
                 cand, best_dimensions, best_extra_bytes, encVars, decVars>>

\* line 118 with best_extra_bytes still None: `None > 0` raises TypeError on
\* Python 3 and is False on Python 2, where line 123 then returns None
PlanReturnNone ==
  /\ LoopOver
  /\ best_extra_bytes = None
  /\ \E major \in {2, 3} :
       IF major >= 3
         THEN pc' = "plan_raised" /\ err' = "TypeError" /\ UNCHANGED dimensions
         ELSE pc' = "planned" /\ dimensions' = best_dimensions /\ UNCHANGED err
  /\ UNCHANGED <<inVars, num_bytes, num_pixels, sqrt_max, i, is_perfect, extra_bytes,
                 cand, best_dimensions, best_extra_bytes, encVars, decVars>>

Plan ==
  \/ PlanExplicit \/ PlanSquare \/ PlanWidthOnly \/ PlanHeightOnly
  \/ PlanSearchInit \/ PlanIter \/ PlanReturn \/ PlanReturnNone

(* --------------------------- file_to_png ------------------------------- *)
Width == dimensions[1]

Height == dimensions[2]

\* variant of NewImage: the image starts white
NewImage_White(w, h) == [p \in (0..(w - 1)) \X (0..(h - 1)) |-> <<255, 255, 255>>]

\* Image.new('RGB', dim): every pixel starts black
NewImage(w, h) == [p \in (0..(w - 1)) \X (0..(h - 1)) |-> <<0, 0, 0>>]

\* FileReader.read(n) on the stream d at offset p
ReadBytes(d, p, n) == SubSeq(d, p + 1, IF p + n <= Len(d) THEN p + n ELSE Len(d))

\* variant of Color: the group is stored in B, G, R order
Color_BGR(b) == <<IF Len(b) > 2 THEN b[3] ELSE 0, IF Len(b) > 1 THEN b[2] ELSE 0, b[1]>>

\* lines 150-154: missing channels of a short group stay 0
Color(b) == <<b[1], IF Len(b) > 1 THEN b[2] ELSE 0, IF Len(b) > 2 THEN b[3] ELSE 0>>

\* lines 139-142: the cursor <<column, row>> after the advance
Advance(c, r, w) == IF c + 1 >= w THEN <<0, r + 1>> ELSE <<c + 1, r>>

\* variant of Overflows: line 147 compares with > instead of >=
Overflows_OffByOne(c, r, w, h) == c + 1 >= w /\ r + 1 > h

\* lines 140, 147: the advance wrapped and left the image
Overflows(c, r, w, h) == c + 1 >= w /\ r + 1 >= h

\* lines 127-133 after the planner returned; int(dimensions[0]) of None is a TypeError
EncInit ==
  /\ pc = "planned"
  /\ IF dimensions = None
       THEN /\ pc' = "enc_raised"
            /\ err' = "TypeError"
            /\ UNCHANGED <<pixels, row, column, pos, writes>>
       ELSE /\ pc' = "enc_loop"
            /\ pixels' = NewImage(Width, Height)
            /\ writes' = [p \in (0..(Width - 1)) \X (0..(Height - 1)) |-> 0]
            /\ row' = 0
            /\ column' = -1
            /\ pos' = 0
            /\ UNCHANGED err
  /\ UNCHANGED <<inVars, planVars, png, decVars>>

\* lines 135-137: the source is exhausted
EncBreak ==
  /\ pc = "enc_loop"
  /\ ReadBytes(data, pos, 3) = <<>>
  /\ pc' = "enc_save"
  /\ UNCHANGED <<inVars, err, planVars, encVars, decVars>>

\* lines 135-157: one group of up to three bytes is stored
EncGroup ==
  /\ pc = "enc_loop"
  /\ LET b == ReadBytes(data, pos, 3)
         cur == Advance(column, row, Width)
     IN /\ b # <<>>
        /\ ~Overflows(column, row, Width, Height)
        /\ pos' = pos + Len(b)
        /\ column' = cur[1]
        /\ row' = cur[2]
        /\ IF ~(cur[2] >= Height)
             THEN /\ pixels' = [pixels EXCEPT ![cur] = Color(b)]
                  /\ writes' = [writes EXCEPT ![cur] = @ + 1]
             ELSE UNCHANGED <<pixels, writes>>
  /\ UNCHANGED <<inVars, pc, err, planVars, png, decVars>>

\* lines 135-148: the row cursor reaches the height with a group in hand
EncCapacity ==
  /\ pc = "enc_loop"
  /\ LET b == ReadBytes(data, pos, 3)
         cur == Advance(column, row, Width)
     IN /\ b # <<>>
        /\ Overflows(column, row, Width, Height)
        /\ pos' = pos + Len(b)
        /\ column' = cur[1]
        /\ row' = cur[2]
  /\ pc' = "enc_raised"
  /\ err' = "CapacityExceeded"
  /\ UNCHANGED <<inVars, planVars, pixels, writes, png, decVars>>

\* lines 161-163: img.save writes the grid unchanged (lossless container);
\* the resize of lines 166-177 happens after the save and changes no output
EncSave ==
  /\ pc = "enc_save"
  /\ png' = Some([size |-> dimensions, pix |-> pixels])
  /\ pc' = "enc_done"
  /\ UNCHANGED <<inVars, err, planVars, pixels, row, column, pos, writes, decVars>>

\* line 163: the image writer fails
EncSaveFail ==
  /\ pc = "enc_save"
  /\ pc' = "enc_raised"
  /\ err' = "IOFailure in img.save"
  /\ UNCHANGED <<inVars, planVars, encVars, decVars>>

Encode == EncInit \/ EncBreak \/ EncGroup \/ EncCapacity \/ EncSave \/ EncSaveFail

(* ------------------ FileReader(file_backed=True) ----------------------- *)
\* lines 30-37: the whole input is read into memory
ReadInfile ==
  /\ pc = "enc_done"
  /\ pc' = "tmp_create"
  /\ UNCHANGED <<inVars, err, planVars, encVars, decVars>>

ReadInfileFail ==
  /\ pc = "enc_done"
  /\ pc' = "dec_raised"
  /\ err' = "IOFailure in read"
  /\ UNCHANGED <<inVars, planVars, encVars, decVars>>

\* lines 39-40: NamedTemporaryFile(delete=False)
TmpCreate ==
  /\ pc = "tmp_create"
  /\ tmp_exists' = TRUE
  /\ tmpfile' = Some("tmp")
  /\ pc' = "tmp_write"
  /\ UNCHANGED <<inVars, err, planVars, encVars, dec_row, dec_col, seg, pix_buffer,
                 outfile, visited>>

TmpCreateFail ==
  /\ pc = "tmp_create"
  /\ pc' = "dec_raised"
  /\ err' = "IOFailure in NamedTemporaryFile"
  /\ UNCHANGED <<inVars, planVars, encVars, decVars>>

\* lines 41-42: the copy is written and closed
TmpWrite ==
  /\ pc = "tmp_write"
  /\ pc' = "tmp_reopen"
  /\ UNCHANGED <<inVars, err, planVars, encVars, decVars>>

\* lines 41-42 raise inside __init__: no with-block was entered, __exit__ never runs
TmpWriteFail ==
  /\ pc = "tmp_write"
  /\ pc' = "dec_raised"
  /\ err' = "IOFailure in tmp.write"
  /\ UNCHANGED <<inVars, planVars, encVars, decVars>>

\* lines 43-44
TmpReopen ==
  /\ pc = "tmp_reopen"
  /\ pc' = "img_open"
  /\ UNCHANGED <<inVars, err, planVars, encVars, decVars>>

\* line 43 raises inside __init__
TmpReopenFail ==
  /\ pc = "tmp_reopen"
  /\ pc' = "dec_raised"
  /\ err' = "IOFailure in open"
  /\ UNCHANGED <<inVars, planVars, encVars, decVars>>

\* lines 52-57: __exit__, run when the with-block is left in either way
ReaderExit ==
  /\ pc = "dec_exit"
  /\ IF tmpfile # None
       THEN tmp_exists' = FALSE /\ tmpfile' = None
       ELSE UNCHANGED <<tmp_exists, tmpfile>>
  /\ pc' = IF err = "" THEN "dec_done" ELSE "dec_raised"
  /\ UNCHANGED <<inVars, err, planVars, encVars, dec_row, dec_col, seg, pix_buffer,
                 outfile, visited>>

FileReader ==
  \/ ReadInfile \/ ReadInfileFail \/ TmpCreate \/ TmpCreateFail
  \/ TmpWrite \/ TmpWriteFail \/ TmpReopen \/ TmpReopenFail \/ ReaderExit

(* --------------------------- png_to_file ------------------------------- *)
\* the image in the temporary copy is the one img.save wrote
Img == Val(png)

ImgW == Img.size[1]

ImgH == Img.size[2]

\* rgb_im.getpixel((col, row))
GetPixel(c, r) == Img.pix[<<c, r>>]

\* lines 186, 190, 197: the cursor <<col, row, segment>> after one channel
DecAdvance(c, r, s, w) ==
  IF s < 3 THEN <<c, r, s + 1>>
  ELSE IF c + 1 >= w THEN <<0, r + 1, 1>> ELSE <<c + 1, r, 1>>

\* variant of Emit: the pending zeros are dropped instead of flushed
Emit_NoFlush(out, run, v) == out \o <<v>>

\* lines 201-212: flush the pending zeros, then the byte itself
Emit(out, run, v) == out \o Zeros(run) \o <<v>>

\* lines 182-185
ImageOpen ==
  /\ pc = "img_open"
  /\ pc' = "dec_loop"
  /\ pix_buffer' = 0
  /\ dec_row' = 0 /\ dec_col' = 0 /\ seg' = 1
  /\ UNCHANGED <<inVars, err, planVars, encVars, tmp_exists, tmpfile, outfile, visited>>

\* lines 182-183 raise inside the with-block
ImageOpenFail ==
  /\ pc = "img_open"
  /\ pc' = "dec_exit"
  /\ err' = "MalformedImage"
  /\ UNCHANGED <<inVars, planVars, encVars, decVars>>

\* both range() loops are exhausted
DecOver == ImgW <= 0 \/ dec_row >= ImgH

Step(c, r, s) ==
  LET n == DecAdvance(c, r, s, ImgW)
  IN dec_col' = n[1] /\ dec_row' = n[2] /\ seg' = n[3]

\* lines 198-199: a zero channel is held back
DecZero ==
  /\ pc = "dec_loop"
  /\ ~DecOver
  /\ LET v == GetPixel(dec_col, dec_row)[seg]
     IN /\ v = 0
        /\ pix_buffer' = pix_buffer + 1
        /\ visited' = Append(visited, v)
  /\ Step(dec_col, dec_row, seg)
  /\ UNCHANGED <<inVars, pc, err, planVars, encVars, tmp_exists, tmpfile, outfile>>

\* lines 200-212: a non-zero channel releases the held zeros
DecNonZero ==
  /\ pc = "dec_loop"
  /\ ~DecOver
  /\ LET v == GetPixel(dec_col, dec_row)[seg]
     IN /\ v # 0
        /\ outfile' = Emit(outfile, pix_buffer, v)
        /\ pix_buffer' = 0
        /\ visited' = Append(visited, v)
  /\ Step(dec_col, dec_row, seg)
  /\ UNCHANGED <<inVars, pc, err, planVars, encVars, tmp_exists, tmpfile>>

\* lines 205, 210: outfile.write raises, after k of the held zeros went out
DecWriteFail ==
  /\ pc = "dec_loop"
  /\ ~DecOver
  /\ LET v == GetPixel(dec_col, dec_row)[seg]
     IN /\ v # 0
        /\ \E k \in 0..pix_buffer : outfile' = outfile \o Zeros(k)
        /\ visited' = Append(visited, v)
  /\ pc' = "dec_exit"
  /\ err' = "IOFailure in outfile.write"
  /\ UNCHANGED <<inVars, planVars, encVars, tmp_exists, tmpfile, dec_row, dec_col, seg,
                 pix_buffer>>

\* lines 214-221: the traversal is over, the pending run is only reported
DecLoopEnd ==
  /\ pc = "dec_loop"
  /\ DecOver
  /\ pc' = "dec_exit"
  /\ UNCHANGED <<inVars, err, planVars, encVars, decVars>>

Decode == ImageOpen \/ ImageOpenFail \/ DecZero \/ DecNonZero \/ DecWriteFail \/ DecLoopEnd

Next == Plan \/ Encode \/ FileReader \/ Decode

Spec == Init /\ [][Next]_vars

(* ===================== properties of the codec ========================= *)
\* the planner was called with no width, no height and square off
Unconstrained == input_dimensions = None /\ ~square

\* ceil(n / 3), stated without the planner's arithmetic
CeilThird(n) == CHOOSE p \in 0..n : 3 * p >= n /\ \A q \in 0..n : 3 * q >= n => p <= q

\* ceil(sqrt(p)), stated without the planner's arithmetic
RootUp(p) == CHOOSE s \in 0..p : s * s >= p /\ (s = 0 \/ (s - 1) * (s - 1) < p)

\* s without its maximal trailing run of zero bytes
StripTrailingZeros(s) ==
  LET nz == {k \in 1..Len(s) : s[k] # 0}
  IN IF nz = {} THEN <<>>
     ELSE SubSeq(s, 1, CHOOSE k \in nz : \A j \in nz : j <= k)

\* the divisors of p among 1..s
DivisorsUpTo(p, s) == {d \in 1..s : p % d = 0}

Largest(ds) == CHOOSE d \in ds : \A e \in ds : e <= d

\* the channel values of the saved image in raster order: index k (from 0) is
\* channel k mod 3 of the pixel at column (k div 3) mod w, row (k div 3) div w
ChannelStream ==
  [k \in 1..(3 * ImgW * ImgH) |->
     Img.pix[<<((k - 1) \div 3) % ImgW, ((k - 1) \div 3) \div ImgW>>][((k - 1) % 3) + 1]]

\* the encoder ran to the end of its read loop
EncLoopOver == pc = "enc_save"

(* C1: with planner-chosen dimensions every input, the empty one included, *)
(* is encoded without a planner or capacity error, and decoding the result *)
(* yields the input without its maximal trailing run of zero bytes.        *)
C1_RoundTrip ==
  Unconstrained =>
    /\ ~(pc \in {"plan_raised", "enc_raised"} /\ err \in {"TypeError", "CapacityExceeded"})
    /\ (pc = "dec_done" => outfile = StripTrailingZeros(data))

(* C2: for every byte count n >= 0 with no constraints, the planner        *)
(* returns a pair (w, h) with w >= 1, h >= 1 and w*h*3 >= n.               *)
C2_DimensionValidity ==
  (Unconstrained /\ pc \in {"planned", "plan_raised"}) =>
    /\ pc = "planned"
    /\ dimensions # None
    /\ Width >= 1 /\ Height >= 1
    /\ Width * Height * 3 >= Len(data)

(* C3: with no constraints, when some d in 1..S divides P the search stops *)
(* at the largest such d and the planner returns (d, P/d).                 *)
C3_ZeroPaddingPreference ==
  LET P == CeilThird(Len(data))
      ds == DivisorsUpTo(P, RootUp(P))
  IN (Unconstrained /\ ds # {}) =>
       /\ (pc = "plan_loop" /\ is_perfect) =>
            (i = Largest(ds) /\ best_dimensions = <<i, P \div i>>)
       /\ pc = "planned" => dimensions = <<Largest(ds), P \div Largest(ds)>>

C3_Witness ==
  /\ Unconstrained /\ pc = "planned"
  /\ Len(data) = 13 /\ dimensions = <<1, 5>>

(* C4: with width >= 1 and height >= 1 both given, the encoder raises the  *)
(* capacity error iff n > w*h*3, with the row cursor at h; for             *)
(* n <= w*h*3 the read loop ends without raising.                          *)
C4_CapacityError ==
  (BothGiven /\ pc \in {"enc_loop", "enc_save", "enc_raised"}) =>
    /\ (pc = "enc_raised" /\ err = "CapacityExceeded") =>
         (Len(data) > Width * Height * 3 /\ row = Height)
    /\ EncLoopOver => Len(data) <= Width * Height * 3
    /\ pc = "enc_loop" => (row < Height /\ pos <= Width * Height * 3)
    /\ err # "TypeError"

C4_Witness ==
  /\ BothGiven /\ pc = "enc_raised" /\ err = "CapacityExceeded"
  /\ dimensions = <<1, 1>> /\ Len(data) = 10

(* C5: when a decode call has exited, normally or by an exception from any *)
(* step, the temporary file it created is gone.                            *)
C5_TempFileReleased == pc \in {"dec_done", "dec_raised"} => ~tmp_exists

(* C6: after any prefix of the traversal the bytes written followed by     *)
(* pix_buffer zeros are the channel values visited; at the end the output  *)
(* is the channel stream without its trailing zeros, empty for a black     *)
(* image.                                                                  *)
C6_ZeroRunSuppression ==
  /\ (pc = "dec_loop" \/ (pc \in {"dec_exit", "dec_done"} /\ err = "")) =>
       outfile \o Zeros(pix_buffer) = visited
  /\ pc = "dec_done" =>
       /\ outfile = StripTrailingZeros(ChannelStream)
       /\ (\A k \in DOMAIN ChannelStream : ChannelStream[k] = 0) => outfile = <<>>

C6_Witness ==
  /\ pc = "dec_done"
  /\ pix_buffer > 0
  /\ \E k \in DOMAIN outfile : outfile[k] = 0

(* C7: input byte i is stored in channel i mod 3 of the pixel at column    *)
(* (i div 3) mod w, row (i div 3) div w, and the decoder visits the        *)
(* channels in that index order.                                           *)
C7_TraversalSymmetry ==
  /\ (pc \in {"enc_loop", "enc_save"} /\ Len(data) <= Width * Height * 3) =>
       \A k \in 0..(pos - 1) :
         pixels[<<(k \div 3) % Width, (k \div 3) \div Width>>][(k % 3) + 1] = data[k + 1]
  /\ (EncLoopOver /\ Len(data) <= Width * Height * 3) => pos = Len(data)
  /\ pc \in {"dec_loop", "dec_exit", "dec_done"} =>
       \A k \in DOMAIN visited : visited[k] = ChannelStream[k]
  /\ pc = "dec_done" => Len(visited) = 3 * ImgW * ImgH

C7_Witness ==
  /\ pc = "dec_done"
  /\ dimensions = <<2, 2>>
  /\ Len(data) = 10

(* C8: with square set and not both dimensions given the planner returns   *)
(* (S, S), whatever single width or height was given; both given are       *)
(* returned unchanged even with square set.                                *)
C8_SquareAndOrder ==
  pc = "planned" =>
    /\ (square /\ ~BothGiven) =>
         dimensions = <<RootUp(CeilThird(Len(data))), RootUp(CeilThird(Len(data)))>>
    /\ BothGiven => dimensions = <<input_dimensions[1][1], input_dimensions[2][1]>>

C8_Witness ==
  /\ pc = "planned" /\ square
  /\ input_dimensions = <<Some(1), None>>
  /\ Len(data) = 10 /\ dimensions = <<2, 2>>

(* C9 as stated: for n >= 1 the candidate at which the search stops, whose *)
(* width divides P, has padding w*h*3 - n equal to zero.                   *)
C9_ZeroPaddingAtDivisor ==
  (pc = "plan_loop" /\ is_perfect /\ num_bytes >= 1) =>
    (cand[1] * cand[2] * 3 - num_bytes = 0 /\ extra_bytes = Some(0))

(* C9 amended: the candidate at which the search stops wastes no pixel,    *)
(* w*h = P, and its padding w*h*3 - n is 3*P - n, one of 0, 1, 2, which is *)
(* zero exactly when n is a multiple of 3.                                 *)
C9_NoSparePixelAtDivisor ==
  (pc = "plan_loop" /\ is_perfect /\ num_bytes >= 1) =>
    /\ cand[1] * cand[2] = CeilThird(num_bytes)
    /\ extra_bytes = Some(3 * CeilThird(num_bytes) - num_bytes)
    /\ Val(extra_bytes) \in 0..2
    /\ (Val(extra_bytes) = 0 <=> num_bytes % 3 = 0)

C9_Witness ==
  /\ pc = "plan_loop" /\ is_perfect
  /\ num_bytes = 5 /\ cand = <<2, 1>> /\ extra_bytes = Some(1)

(* C10: for an input that fits, the encoder assigns exactly the first      *)
(* ceil(n/3) pixels in raster order, each once; later pixels and the       *)
(* channels of the last assigned pixel beyond the input stay 0.            *)
C10_EncoderFrame ==
  (EncLoopOver /\ Len(data) <= Width * Height * 3) =>
    LET P == CeilThird(Len(data))
    IN /\ \A p \in DOMAIN pixels :
            LET raster == p[2] * Width + p[1]
            IN /\ writes[p] = (IF raster < P THEN 1 ELSE 0)
               /\ raster >= P => pixels[p] = <<0, 0, 0>>
       /\ \A k \in Len(data)..(3 * P - 1) :
            pixels[<<(k \div 3) % Width, (k \div 3) \div Width>>][(k % 3) + 1] = 0

C10_Witness ==
  /\ EncLoopOver
  /\ dimensions = <<2, 2>>
  /\ Len(data) = 4 /\ data[4] # 0
====
